---- MODULE Spec2Model ----
(***************************************************************************)
(* Recurrence-occurrence engine of the prayer house backend:               *)
(*   backend/app/event_utils.py   status classifier, occurrence generator  *)
(*   backend/app/prayer_utils.py  prayer status classifier                 *)
(*   backend/app/routers.py       series / occurrence routes               *)
(*                                                                         *)
(* Time.  A calendar date is its day ordinal, counted from 2024-01-01      *)
(* (ordinal 0, a Monday).  A datetime is the number of seconds since       *)
(* 2024-01-01T00:00:00 UTC; every datetime of the model is timezone-aware  *)
(* UTC, the storage convention of the routes.  An optional value (None or  *)
(* v) is the sequence << >> or << v >>.                                    *)
(***************************************************************************)
EXTENDS Integers, Sequences, FiniteSets, TLC

VARIABLES
    domain,        \* "event" | "prayer": which of the two route families (and its two tables) this store is
    now,           \* the wall clock, datetime.now()
    series,        \* EventSeries / PrayerSeries table: id -> row
    occurrences,   \* EventOccurrence / PrayerOccurrence table: id -> row
    next_id,       \* next primary key of the occurrence table
    last,          \* the last request handled, with its response
    single_edited, \* history: ids that a successful single-occurrence edit (apply_to_future = False) rewrote
    ops,           \* number of write requests handled so far
    gen,           \* one call of generate_occurrences: arguments, and result
    cls,           \* one call of compute_event_status: arguments, and result
    readers,       \* the read requests in flight, each with its position in the handler
    txn            \* the open transaction of a create request: what its session holds before the commit
vars == <<domain, now, series, occurrences, next_id, last, single_edited, ops, gen, cls, readers, txn>>

-----------------------------------------------------------------------------
(* Calendar arithmetic: datetime.date, datetime.time, timedelta, calendar  *)

SecondsPerMinute == 60
SecondsPerDay == 86400
EpochYear == 2024

\* datetime.combine(date, time)
Combine(d, t) == d * SecondsPerDay + t
\* datetime.date()
DateOf(dt) == dt \div SecondsPerDay
\* datetime.time()
TimeOf(dt) == dt % SecondsPerDay
\* time(h, m, s)
HMS(h, m, s) == h * 3600 + m * SecondsPerMinute + s

IsLeap(y) == (y % 4 = 0 /\ y % 100 # 0) \/ y % 400 = 0
DaysInYear(y) == IF IsLeap(y) THEN 366 ELSE 365
\* calendar.monthrange(y, m)[1]
DaysInMonth(y, m) ==
    IF m = 2 THEN (IF IsLeap(y) THEN 29 ELSE 28)
    ELSE IF m \in {4, 6, 9, 11} THEN 30 ELSE 31

RECURSIVE DaysBeforeYear(_)
DaysBeforeYear(y) == IF y <= EpochYear THEN 0 ELSE DaysBeforeYear(y - 1) + DaysInYear(y - 1)
RECURSIVE DaysBeforeMonth(_, _)
DaysBeforeMonth(y, m) == IF m <= 1 THEN 0 ELSE DaysBeforeMonth(y, m - 1) + DaysInMonth(y, m - 1)
\* date(y, m, d) as a day ordinal
Ymd(y, m, d) == DaysBeforeYear(y) + DaysBeforeMonth(y, m) + (d - 1)

RECURSIVE YearFrom(_, _)
YearFrom(n, y) == IF n < DaysInYear(y) THEN <<y, n>> ELSE YearFrom(n - DaysInYear(y), y + 1)
RECURSIVE MonthFrom(_, _, _)
MonthFrom(n, y, m) == IF n < DaysInMonth(y, m) THEN <<m, n + 1>> ELSE MonthFrom(n - DaysInMonth(y, m), y, m + 1)
\* date.year, date.month, date.day
YearOf(d) == YearFrom(d, EpochYear)[1]
MonthOf(d) == MonthFrom(YearFrom(d, EpochYear)[2], YearOf(d), 1)[1]
DayOf(d) == MonthFrom(YearFrom(d, EpochYear)[2], YearOf(d), 1)[2]
\* date.weekday(): Monday = 0 .. Sunday = 6
Weekday(d) == d % 7

\* Python truthiness of an Optional[int]: None and 0 are false
Truthy(opt) == Len(opt) = 1 /\ opt[1] # 0

-----------------------------------------------------------------------------
(* Status classifier                                                       *)

\* datetime(y, mo, d, h, mi, tzinfo=...): seconds and below dropped
TruncateToMinute(dt) == dt - (dt % SecondsPerMinute)

compute_event_status_Raw(start_datetime, end_datetime, now_) ==
    IF now_ < start_datetime THEN "upcoming"
    ELSE IF start_datetime <= now_ /\ now_ < end_datetime THEN "ongoing"
    ELSE "completed"
compute_event_status(start_datetime, end_datetime, now_) ==
    LET now_truncated == TruncateToMinute(now_)
        start_truncated == TruncateToMinute(start_datetime)
        end_truncated == TruncateToMinute(end_datetime)
    IN  IF now_truncated < start_truncated THEN "upcoming"
        ELSE IF start_truncated <= now_truncated /\ now_truncated < end_truncated THEN "ongoing"
        ELSE "completed"

\* prayer_utils.compute_prayer_status, as the occurrence routes call it:
\* (start_datetime, end_datetime, now)
compute_prayer_status(start_datetime, end_datetime, now_) ==
    LET now_truncated == TruncateToMinute(now_)
        start_truncated == TruncateToMinute(start_datetime)
        end_truncated == TruncateToMinute(end_datetime)
    IN  IF now_truncated < start_truncated THEN "upcoming"
        ELSE IF start_truncated <= now_truncated /\ now_truncated < end_truncated THEN "inprogress"
        ELSE "completed"

-----------------------------------------------------------------------------
(* Occurrence generator                                                    *)

\* A recurrence_days string is the sequence of its comma-separated tokens.
\* A token that str.isdigit() accepts is its value (>= 0); any other token
\* ("", "x", "-1") is NonDigit.  None and "" are the empty sequence.
NonDigit == -1
IsDigitToken(tok) == tok >= 0

parse_recurrence_days(days_str) == SelectSeq(days_str, IsDigitToken)

\* (occurrence_start, occurrence_start + duration), duration = end - start of the anchor
WindowAt_EndOfDay(occurrence_start, start_datetime, end_datetime) ==
    <<occurrence_start, Combine(DateOf(occurrence_start), TimeOf(end_datetime))>>
WindowAt(occurrence_start, start_datetime, end_datetime) ==
    <<occurrence_start, occurrence_start + (end_datetime - start_datetime)>>

\* generation_end_date, then actual_end_date
ActualEndDate(start_datetime, recurrence_end_date, max_months) ==
    LET generation_end_date == DateOf(start_datetime) + max_months * 30
    IN  IF Len(recurrence_end_date) = 1 /\ recurrence_end_date[1] < generation_end_date
        THEN recurrence_end_date[1] ELSE generation_end_date

CountReached(recurrence_count, count) == Truthy(recurrence_count) /\ count >= recurrence_count[1]

\* "Move to next month (same day)"
NextMonth_Overflow(current_date) ==
    IF MonthOf(current_date) = 12
    THEN Ymd(YearOf(current_date) + 1, 1, DayOf(current_date))
    ELSE Ymd(YearOf(current_date), MonthOf(current_date) + 1, DayOf(current_date))
NextMonth(current_date) ==
    LET y == YearOf(current_date)
        m == MonthOf(current_date)
        d == DayOf(current_date)
    IN  IF m = 12 THEN Ymd(y + 1, 1, d)
        ELSE IF d <= DaysInMonth(y, m + 1) THEN Ymd(y, m + 1, d)
        ELSE Ymd(y, m + 1, DaysInMonth(y, m + 1))

\* Each loop returns the windows it appends to occurrences, in order, from
\* the iteration whose variables it is given.

\* while current_date <= actual_end_date (daily).  result is the list
\* occurrences as the iteration finds it; count is its length, and the
\* comparison of the two makes each iteration evaluate the list it is handed.
RECURSIVE DailyLoop_StaleDate(_, _, _, _, _, _, _, _)
DailyLoop_StaleDate(current_date, current_start, count, start_datetime, end_datetime, actual_end_date, recurrence_count, result) ==
    IF Len(result) = count /\ current_date <= actual_end_date /\ ~CountReached(recurrence_count, count)
    THEN DailyLoop_StaleDate(current_date + 1,
                             Combine(current_date, TimeOf(current_start)),
                             count + 1,
                             start_datetime, end_datetime, actual_end_date, recurrence_count,
                             Append(result, WindowAt(current_start, start_datetime, end_datetime)))
    ELSE result
RECURSIVE DailyLoop(_, _, _, _, _, _, _, _)
DailyLoop(current_date, current_start, count, start_datetime, end_datetime, actual_end_date, recurrence_count, result) ==
    IF Len(result) = count /\ current_date <= actual_end_date /\ ~CountReached(recurrence_count, count)
    THEN DailyLoop(current_date + 1,
                   Combine(current_date + 1, TimeOf(current_start)),
                   count + 1,
                   start_datetime, end_datetime, actual_end_date, recurrence_count,
                   Append(result, WindowAt(current_start, start_datetime, end_datetime)))
    ELSE result

\* for day_offset in days (one week), from the i-th day of the list
RECURSIVE WeekDaysLoop(_, _, _, _, _, _, _, _)
WeekDaysLoop(i, days, week_start, count, start_datetime, end_datetime, actual_end_date, recurrence_count) ==
    IF i > Len(days) THEN << >>
    ELSE LET occurrence_date == week_start + days[i] IN
         IF occurrence_date < DateOf(start_datetime)
         THEN WeekDaysLoop(i + 1, days, week_start, count,
                           start_datetime, end_datetime, actual_end_date, recurrence_count)
         ELSE IF occurrence_date > actual_end_date THEN << >>
         ELSE IF CountReached(recurrence_count, count) THEN << >>
         ELSE <<WindowAt(Combine(occurrence_date, TimeOf(start_datetime)),
                         start_datetime, end_datetime)>>
              \o WeekDaysLoop(i + 1, days, week_start, count + 1,
                              start_datetime, end_datetime, actual_end_date, recurrence_count)

\* while current_date <= actual_end_date (weekly)
RECURSIVE WeeklyLoop(_, _, _, _, _, _, _)
WeeklyLoop(current_date, days, count, start_datetime, end_datetime, actual_end_date, recurrence_count) ==
    IF ~(current_date <= actual_end_date) THEN << >>
    ELSE IF CountReached(recurrence_count, count) THEN << >>
    ELSE LET week_start == current_date - Weekday(current_date)
             week == WeekDaysLoop(1, days, week_start, count,
                                  start_datetime, end_datetime, actual_end_date, recurrence_count)
         IN  week \o WeeklyLoop(current_date + 7, days, count + Len(week),
                                start_datetime, end_datetime, actual_end_date, recurrence_count)

\* while current_date <= actual_end_date (monthly)
RECURSIVE MonthlyLoop(_, _, _, _, _, _)
MonthlyLoop(current_date, count, start_datetime, end_datetime, actual_end_date, recurrence_count) ==
    IF ~(current_date <= actual_end_date) THEN << >>
    ELSE IF CountReached(recurrence_count, count) THEN << >>
    ELSE <<WindowAt(Combine(current_date, TimeOf(start_datetime)), start_datetime, end_datetime)>>
         \o MonthlyLoop(NextMonth(current_date), count + 1,
                        start_datetime, end_datetime, actual_end_date, recurrence_count)

generate_occurrences(start_datetime, end_datetime, recurrence_type, recurrence_days, recurrence_end_date, recurrence_count, max_months) ==
    LET actual_end_date == ActualEndDate(start_datetime, recurrence_end_date, max_months)
    IN  IF recurrence_type = "none" THEN << <<start_datetime, end_datetime>> >>
        ELSE IF recurrence_type = "daily"
        THEN DailyLoop(DateOf(start_datetime), start_datetime, 0,
                       start_datetime, end_datetime, actual_end_date, recurrence_count, << >>)
        ELSE IF recurrence_type = "weekly"
        THEN LET parsed == parse_recurrence_days(recurrence_days)
                 days == IF parsed = << >> THEN <<Weekday(DateOf(start_datetime))>> ELSE parsed
             IN  WeeklyLoop(DateOf(start_datetime), days, 0,
                            start_datetime, end_datetime, actual_end_date, recurrence_count)
        ELSE IF recurrence_type = "monthly"
        THEN MonthlyLoop(DateOf(start_datetime), 0,
                         start_datetime, end_datetime, actual_end_date, recurrence_count)
        ELSE << >>

-----------------------------------------------------------------------------
(* Series / occurrence store and the routes over it                        *)

\* Bounds of the model
MaxOps == 3        \* write requests (create, edit, delete) that succeed in one behaviour
MaxSeries == 2     \* series rows

\* Optional[str]: None is NoneStr
NoneStr == "None"
\* not s or not s.strip()
Blank(s) == s \in {NoneStr, "", " "}

EmptyTable == [i \in {} |-> 0]

\* The response of a request that was not an edit
NoUpdate == [title |-> "", type |-> "", location |-> NoneStr, join_info |-> NoneStr,
             start_datetime |-> 0, end_datetime |-> 0]
Idle == [op |-> "none", id |-> 0, flag |-> FALSE, code |-> 0, detail |-> "",
         upd |-> NoUpdate, affected |-> {}]
NoCall == [pc |-> "idle", start_datetime |-> 0, end_datetime |-> 0, recurrence_type |-> "none",
           recurrence_days |-> << >>, recurrence_end_date |-> << >>, recurrence_count |-> << >>,
           result |-> << >>]
NoClassify == [pc |-> "idle", start_datetime |-> 0, end_datetime |-> 0, now |-> 0, result |-> ""]
NoTxn == [pc |-> "idle"]

MaxMonths == 3

\* compute_event_status / compute_prayer_status, by route family
ComputeStatus(dom, start_datetime, end_datetime, now_) ==
    IF dom = "event" THEN compute_event_status(start_datetime, end_datetime, now_)
    ELSE compute_prayer_status(start_datetime, end_datetime, now_)

\* prayer_utils.generate_prayer_occurrences: the prayer routes call it with
\* the arguments the event routes give generate_occurrences
generate_prayer_occurrences(start_datetime, end_datetime, recurrence_type, recurrence_days, recurrence_end_date, recurrence_count, max_months_) ==
    generate_occurrences(start_datetime, end_datetime, recurrence_type, recurrence_days,
                         recurrence_end_date, recurrence_count, max_months_)

\* Type-specific validation of a create or update payload:
\* <<detail of the 400, or "" when valid; location; join_info>> after the silent clearing
ValidateType(dom, p) ==
    IF dom = "event"
    THEN IF p.type # "offline" THEN <<"type", p.location, p.join_info>>
         ELSE IF Blank(p.location) THEN <<"location", p.location, p.join_info>>
         ELSE <<"", p.location, IF ~Blank(p.join_info) THEN NoneStr ELSE p.join_info>>
    ELSE IF p.type = "offline"
         THEN IF Blank(p.location) THEN <<"location", p.location, p.join_info>>
              ELSE <<"", p.location, IF ~Blank(p.join_info) THEN NoneStr ELSE p.join_info>>
         ELSE IF p.type = "online"
         THEN IF Blank(p.join_info) THEN <<"join_info", p.location, p.join_info>>
              ELSE <<"", IF ~Blank(p.location) THEN NoneStr ELSE p.location, p.join_info>>
         ELSE <<"type", p.location, p.join_info>>

\* get_recurrence_label
get_recurrence_label(recurrence_type) ==
    IF recurrence_type = "daily" THEN "Daily"
    ELSE IF recurrence_type = "weekly" THEN "Weekly"
    ELSE IF recurrence_type = "monthly" THEN "Monthly"
    ELSE NoneStr

\* "Check if occurrence has started"
HasStarted_Strict(start_datetime, now_) == start_datetime < now_
HasStarted(start_datetime, now_) == start_datetime <= now_

Reply(op, id, flag, code, detail, upd, affected) ==
    [op |-> op, id |-> id, flag |-> flag, code |-> code, detail |-> detail,
     upd |-> upd, affected |-> affected]

Reject(op, id, flag, code, detail) ==
    /\ last' = Reply(op, id, flag, code, detail, NoUpdate, {})
    /\ UNCHANGED <<domain, now, series, occurrences, next_id, single_edited, ops, gen, cls, readers, txn>>

-----------------------------------------------------------------------------
(* Inputs of the requests                                                  *)

\* Monday 2025-01-06
D0 == Ymd(2025, 1, 6)

\* Readings of the clock: before every window, within the minute of 09:00 on
\* D0, and 09:45 a week later
Instants ==
    { Combine(D0, HMS(8, 0, 0)), Combine(D0, HMS(9, 0, 10)), Combine(D0 + 7, HMS(9, 45, 0)) }

CreatePayload(m, w, r) ==
    [title |-> m.title, type |-> m.type, location |-> m.location, join_info |-> m.join_info,
     start_datetime |-> w[1], end_datetime |-> w[2],
     recurrence_type |-> r.recurrence_type, recurrence_days |-> r.recurrence_days,
     recurrence_end_date |-> r.recurrence_end_date, recurrence_count |-> r.recurrence_count]

Offline(title) == [title |-> title, type |-> "offline", location |-> "Hall", join_info |-> "link"]
Online(title) == [title |-> title, type |-> "online", location |-> "Hall", join_info |-> "link"]
NoLocation(title) == [title |-> title, type |-> "offline", location |-> NoneStr, join_info |-> NoneStr]

Once == [recurrence_type |-> "none", recurrence_days |-> << >>,
         recurrence_end_date |-> << >>, recurrence_count |-> << >>]
WeeklyTimes(n) == [recurrence_type |-> "weekly", recurrence_days |-> << >>,
                   recurrence_end_date |-> << >>, recurrence_count |-> <<n>>]
DailyTimes(n) == [recurrence_type |-> "daily", recurrence_days |-> << >>,
                  recurrence_end_date |-> << >>, recurrence_count |-> <<n>>]

\* Create payloads: three Mondays 09:00-10:00; one window whose start has
\* seconds; two nights 23:00-01:00; an inverted window; a window entirely in
\* the past; a payload without location; an online payload
CreatePayloads ==
    { CreatePayload(Offline("A"), <<Combine(D0, HMS(9, 0, 0)), Combine(D0, HMS(10, 0, 0))>>, WeeklyTimes(3)),
      CreatePayload(Offline("A"), <<Combine(D0, HMS(9, 0, 30)), Combine(D0, HMS(10, 0, 0))>>, Once),
      CreatePayload(Offline("A"), <<Combine(D0, HMS(23, 0, 0)), Combine(D0 + 1, HMS(1, 0, 0))>>, DailyTimes(2)),
      CreatePayload(Offline("A"), <<Combine(D0, HMS(10, 0, 0)), Combine(D0, HMS(9, 0, 0))>>, Once),
      CreatePayload(Offline("A"), <<Combine(D0 - 1, HMS(9, 0, 0)), Combine(D0 - 1, HMS(10, 0, 0))>>, Once),
      CreatePayload(NoLocation("A"), <<Combine(D0, HMS(9, 0, 0)), Combine(D0, HMS(10, 0, 0))>>, Once),
      CreatePayload(Online("A"), <<Combine(D0, HMS(9, 0, 0)), Combine(D0, HMS(10, 0, 0))>>, Once) }

UpdatePayload(m, w) ==
    [title |-> m.title, type |-> m.type, location |-> m.location, join_info |-> m.join_info,
     start_datetime |-> w[1], end_datetime |-> w[2]]

\* Update payloads: half an hour later; across midnight; the following Monday;
\* an inverted window; a payload without location
UpdatePayloads ==
    { UpdatePayload(Offline("B"), <<Combine(D0, HMS(9, 30, 0)), Combine(D0, HMS(10, 30, 0))>>),
      UpdatePayload(Offline("B"), <<Combine(D0, HMS(23, 0, 0)), Combine(D0 + 1, HMS(1, 0, 0))>>),
      UpdatePayload(Offline("B"), <<Combine(D0 + 7, HMS(9, 45, 0)), Combine(D0 + 7, HMS(10, 45, 0))>>),
      UpdatePayload(Offline("B"), <<Combine(D0, HMS(10, 30, 0)), Combine(D0, HMS(9, 30, 0))>>),
      UpdatePayload(NoLocation("B"), <<Combine(D0, HMS(9, 30, 0)), Combine(D0, HMS(10, 30, 0))>>) }

-----------------------------------------------------------------------------
(* CreateSeries                                                            *)

\* "if recurrence_type == 'weekly' and not recurrence_days": str(start.weekday())
DefaultDays(p) ==
    IF p.recurrence_type = "weekly" /\ p.recurrence_days = << >>
    THEN <<Weekday(DateOf(p.start_datetime))>> ELSE p.recurrence_days

\* The occurrence row of one generated window
NewOccurrence_DefaultStatus(dom, series_id, p, location, join_info, window, now_) ==
    [series_id |-> series_id, title |-> p.title, type |-> p.type,
     location |-> location, join_info |-> join_info,
     start_datetime |-> window[1], end_datetime |-> window[2],
     status |-> "upcoming",
     recurrence_type |-> get_recurrence_label(p.recurrence_type)]
NewOccurrence(dom, series_id, p, location, join_info, window, now_) ==
    [series_id |-> series_id, title |-> p.title, type |-> p.type,
     location |-> location, join_info |-> join_info,
     start_datetime |-> window[1], end_datetime |-> window[2],
     status |-> ComputeStatus(dom, window[1], window[2], now_),
     recurrence_type |-> get_recurrence_label(p.recurrence_type)]

\* db.add(db_series) .. db.commit(): the series row and one row per window
PersistSeries(dom, p, location, join_info, occurrence_tuples, now_) ==
    LET sid == Cardinality(DOMAIN series) + 1
        ids == next_id .. (next_id + Len(occurrence_tuples) - 1)
    IN  /\ series' = [i \in DOMAIN series \cup {sid} |->
                        IF i = sid
                        THEN [title |-> p.title, type |-> p.type,
                              location |-> location, join_info |-> join_info,
                              recurrence_type |-> p.recurrence_type,
                              recurrence_days |-> DefaultDays(p),
                              recurrence_end_date |-> p.recurrence_end_date,
                              recurrence_count |-> p.recurrence_count,
                              anchor |-> IF dom = "prayer"
                                         THEN <<p.start_datetime, p.end_datetime>> ELSE << >>]
                        ELSE series[i]]
        /\ occurrences' = [i \in DOMAIN occurrences \cup ids |->
                             IF i \in ids
                             THEN NewOccurrence(dom, sid, p, location, join_info,
                                                occurrence_tuples[i - next_id + 1], now_)
                             ELSE occurrences[i]]
        /\ next_id' = next_id + Len(occurrence_tuples)
        /\ last' = Reply("create", sid, FALSE, 201, "", NoUpdate, ids)
        /\ ops' = ops + 1
        /\ UNCHANGED <<domain, single_edited, gen, cls, readers>>

\* POST /events.  now2 is the second reading of the clock, taken after generation.
CreateEvent_NoPastCheck(event, now2) ==
    LET v == ValidateType("event", event) IN
    IF v[1] # "" THEN Reject("create", 0, FALSE, 400, v[1])
    ELSE IF event.end_datetime <= event.start_datetime
    THEN Reject("create", 0, FALSE, 400, "range")
    ELSE /\ PersistSeries("event", event, v[2], v[3],
                          generate_occurrences(event.start_datetime, event.end_datetime,
                                               event.recurrence_type, DefaultDays(event),
                                               event.recurrence_end_date, event.recurrence_count,
                                               MaxMonths),
                          now2)
         /\ now' = now2
         /\ UNCHANGED txn
CreateEvent(event, now2) ==
    LET v == ValidateType("event", event) IN
    IF v[1] # "" THEN Reject("create", 0, FALSE, 400, v[1])
    ELSE IF event.end_datetime <= event.start_datetime
    THEN Reject("create", 0, FALSE, 400, "range")
    ELSE IF event.end_datetime < now
    THEN Reject("create", 0, FALSE, 400, "past")
    ELSE /\ PersistSeries("event", event, v[2], v[3],
                          generate_occurrences(event.start_datetime, event.end_datetime,
                                               event.recurrence_type, DefaultDays(event),
                                               event.recurrence_end_date, event.recurrence_count,
                                               MaxMonths),
                          now2)
         /\ now' = now2
         /\ UNCHANGED txn

create_event ==
    /\ domain = "event"
    /\ ops < MaxOps
    /\ Cardinality(DOMAIN series) < MaxSeries
    /\ \E event \in CreatePayloads : \E now2 \in {t \in Instants : t >= now} :
          CreateEvent(event, now2)

\* POST /prayers/series
CreatePrayerSeries(prayer) ==
    LET v == ValidateType("prayer", prayer) IN
    IF prayer.recurrence_type \notin {"none", "daily", "weekly", "monthly"}
    THEN Reject("create", 0, FALSE, 400, "recurrence_type")
    ELSE IF v[1] # "" THEN Reject("create", 0, FALSE, 400, v[1])
    ELSE IF prayer.end_datetime <= prayer.start_datetime
    THEN Reject("create", 0, FALSE, 400, "range")
    ELSE IF prayer.start_datetime < now
    THEN Reject("create", 0, FALSE, 400, "past_start")
    ELSE IF prayer.end_datetime < now
    THEN Reject("create", 0, FALSE, 400, "past")
    ELSE /\ PersistSeries("prayer", prayer, v[2], v[3],
                          generate_prayer_occurrences(prayer.start_datetime, prayer.end_datetime,
                                                      prayer.recurrence_type, DefaultDays(prayer),
                                                      prayer.recurrence_end_date,
                                                      prayer.recurrence_count, MaxMonths),
                          now)
         /\ UNCHANGED <<now, txn>>

create_prayer_series ==
    /\ domain = "prayer"
    /\ ops < MaxOps
    /\ Cardinality(DOMAIN series) < MaxSeries
    /\ \E prayer \in CreatePayloads : CreatePrayerSeries(prayer)

-----------------------------------------------------------------------------
(* EditOccurrence                                                          *)

\* filter(series_id == occurrence.series_id, start_datetime > original_start_datetime)
FutureOccurrences_AnySeries(rows, series_id, original_start_datetime) ==
    {i \in DOMAIN rows : rows[i].start_datetime > original_start_datetime}
FutureOccurrences_WholeSeries(rows, series_id, original_start_datetime) ==
    {i \in DOMAIN rows : /\ rows[i].series_id = series_id
                         /\ rows[i].start_datetime # original_start_datetime}
FutureOccurrences(rows, series_id, original_start_datetime) ==
    {i \in DOMAIN rows : /\ rows[i].series_id = series_id
                         /\ rows[i].start_datetime > original_start_datetime}

\* "Only update if not started" / "Only delete if not started"
NotStarted_SkipEdited(i, start_datetime, now_) == start_datetime > now_ /\ i \notin single_edited
NotStarted(i, start_datetime, now_) == start_datetime > now_

\* datetime.combine(future_occ_start_date, new_start_time)
SiblingStart_Collapsed(future_occ, occurrence_update) ==
    Combine(DateOf(occurrence_update.start_datetime), TimeOf(occurrence_update.start_datetime))
SiblingStart(future_occ, occurrence_update) ==
    Combine(DateOf(future_occ.start_datetime), TimeOf(occurrence_update.start_datetime))

\* the new end of a sibling: same-day and multi-day branches
SiblingEnd_StartPlusDuration(future_occ, occurrence_update) ==
    SiblingStart(future_occ, occurrence_update)
        + (occurrence_update.end_datetime - occurrence_update.start_datetime)
SiblingEnd(future_occ, occurrence_update) ==
    LET future_occ_start_date == DateOf(future_occ.start_datetime)
        future_occ_end_date == DateOf(future_occ.end_datetime)
        new_end_time == TimeOf(occurrence_update.end_datetime)
        new_duration == occurrence_update.end_datetime - occurrence_update.start_datetime
        new_start == SiblingStart(future_occ, occurrence_update)
    IN  IF future_occ_start_date = future_occ_end_date
        THEN Combine(future_occ_start_date, new_end_time)
        ELSE IF Combine(future_occ_end_date, new_end_time) <= new_start
             THEN new_start + new_duration
             ELSE Combine(future_occ_end_date, new_end_time)

\* the body of "for future_occ in future_occurrences" for one sibling that has not started
RewriteSibling(dom, future_occ, occurrence_update, now_) ==
    [future_occ EXCEPT
        !.title = occurrence_update.title,
        !.type = occurrence_update.type,
        !.location = occurrence_update.location,
        !.join_info = occurrence_update.join_info,
        !.start_datetime = SiblingStart(future_occ, occurrence_update),
        !.end_datetime = SiblingEnd(future_occ, occurrence_update),
        !.status = ComputeStatus(dom, SiblingStart(future_occ, occurrence_update),
                                 SiblingEnd(future_occ, occurrence_update), now_)]

\* "Update this occurrence" and "Recompute status"
RewriteTarget(dom, occurrence, occurrence_update, now_) ==
    [occurrence EXCEPT
        !.title = occurrence_update.title,
        !.type = occurrence_update.type,
        !.location = occurrence_update.location,
        !.join_info = occurrence_update.join_info,
        !.start_datetime = occurrence_update.start_datetime,
        !.end_datetime = occurrence_update.end_datetime,
        !.status = ComputeStatus(dom, occurrence_update.start_datetime,
                                 occurrence_update.end_datetime, now_)]

\* PUT /{domain}/occurrences/{id}?apply_to_future=...
\* autoflush: whether the session flushes the rewritten target before the
\* sibling query runs (the session factory is configured outside these routes),
\* that is, whether the filter reads the target's new or its stored start.
UpdateOccurrence(dom, occurrence_id, occurrence_update, apply_to_future, autoflush) ==
    IF occurrence_id \notin DOMAIN occurrences
    THEN Reject("edit", occurrence_id, apply_to_future, 404, "not_found")
    ELSE
    LET occurrence == occurrences[occurrence_id]
        original_start_datetime == occurrence.start_datetime
        v == ValidateType(dom, occurrence_update)
        cleared == [occurrence_update EXCEPT !.location = v[2], !.join_info = v[3]]
        session == [occurrences EXCEPT
                       ![occurrence_id] = RewriteTarget(dom, occurrence, cleared, now)]
        visible == IF autoflush THEN session ELSE occurrences
        future_occurrences ==
            IF apply_to_future
            THEN FutureOccurrences(visible, occurrence.series_id, original_start_datetime)
            ELSE {}
        touched == {i \in future_occurrences : NotStarted(i, session[i].start_datetime, now)}
    IN  IF HasStarted(occurrence.start_datetime, now)
        THEN Reject("edit", occurrence_id, apply_to_future, 400, "started")
        ELSE IF v[1] # ""
        THEN Reject("edit", occurrence_id, apply_to_future, 400, v[1])
        ELSE IF occurrence_update.end_datetime <= occurrence_update.start_datetime
        THEN Reject("edit", occurrence_id, apply_to_future, 400, "range")
        ELSE IF dom = "prayer" /\ occurrence_update.start_datetime <= now
        THEN Reject("edit", occurrence_id, apply_to_future, 400, "past_start")
        ELSE /\ occurrences' = [i \in DOMAIN session |->
                                  IF i \in touched
                                  THEN RewriteSibling(dom, session[i], cleared, now)
                                  ELSE session[i]]
             /\ single_edited' = IF apply_to_future THEN single_edited
                                 ELSE single_edited \cup {occurrence_id}
             /\ last' = Reply("edit", occurrence_id, apply_to_future, 200, "",
                              occurrence_update, touched)
             /\ ops' = ops + 1
             /\ UNCHANGED <<domain, now, series, next_id, gen, cls, readers, txn>>

update_event_occurrence ==
    /\ domain = "event"
    /\ ops < MaxOps
    /\ \E occurrence_id \in 1 .. (next_id - 1), occurrence_update \in UpdatePayloads,
          apply_to_future \in BOOLEAN :
          \E autoflush \in (IF apply_to_future THEN BOOLEAN ELSE {FALSE}) :
             UpdateOccurrence("event", occurrence_id, occurrence_update, apply_to_future, autoflush)

update_prayer_occurrence ==
    /\ domain = "prayer"
    /\ ops < MaxOps
    /\ \E occurrence_id \in 1 .. (next_id - 1), occurrence_update \in UpdatePayloads,
          apply_to_future \in BOOLEAN :
          \E autoflush \in (IF apply_to_future THEN BOOLEAN ELSE {FALSE}) :
             UpdateOccurrence("prayer", occurrence_id, occurrence_update, apply_to_future, autoflush)

-----------------------------------------------------------------------------
(* DeleteOccurrence                                                        *)

\* DELETE /{domain}/occurrences/{id}?delete_future=...
DeleteOccurrence(occurrence_id, delete_future) ==
    IF occurrence_id \notin DOMAIN occurrences
    THEN Reject("delete", occurrence_id, delete_future, 404, "not_found")
    ELSE
    LET occurrence == occurrences[occurrence_id]
        future_occurrences ==
            IF delete_future
            THEN FutureOccurrences(occurrences, occurrence.series_id, occurrence.start_datetime)
            ELSE {}
        removed == {occurrence_id} \cup
                   {i \in future_occurrences : NotStarted(i, occurrences[i].start_datetime, now)}
    IN  IF HasStarted(occurrence.start_datetime, now)
        THEN Reject("delete", occurrence_id, delete_future, 400, "started")
        ELSE /\ occurrences' = [i \in DOMAIN occurrences \ removed |-> occurrences[i]]
             /\ last' = Reply("delete", occurrence_id, delete_future, 204, "", NoUpdate, removed)
             /\ ops' = ops + 1
             /\ UNCHANGED <<domain, now, series, next_id, single_edited, gen, cls, readers, txn>>

delete_event_occurrence ==
    /\ domain = "event"
    /\ ops < MaxOps
    /\ \E occurrence_id \in 1 .. (next_id - 1), delete_future \in BOOLEAN :
          DeleteOccurrence(occurrence_id, delete_future)

delete_prayer_occurrence ==
    /\ domain = "prayer"
    /\ ops < MaxOps
    /\ \E occurrence_id \in 1 .. (next_id - 1), delete_future \in BOOLEAN :
          DeleteOccurrence(occurrence_id, delete_future)

-----------------------------------------------------------------------------
(* ListOccurrences and the single-occurrence read                          *)

\* datetime.combine(now.date(), datetime.min.time())
TodayStart(now_) == Combine(DateOf(now_), 0)
\* datetime.combine(now.date(), datetime.max.time()): 23:59:59.999999, the
\* last instant of the day; datetimes of the model are whole seconds
TodayEnd(now_) == Combine(DateOf(now_), SecondsPerDay - 1)

\* tab: "today", "upcoming", "past"; None, and any other value, filter nothing
Tabs == { "today", "upcoming", "past", NoneStr }

\* the filter the query carries for a tab
TabFilter_UpcomingFromNow(tab, occurrence, now_) ==
    IF tab = "today"
    THEN /\ occurrence.start_datetime <= TodayEnd(now_)
         /\ occurrence.end_datetime >= TodayStart(now_)
         /\ occurrence.end_datetime >= now_
    ELSE IF tab = "upcoming" THEN occurrence.start_datetime > now_
    ELSE IF tab = "past" THEN occurrence.end_datetime < now_
    ELSE TRUE
TabFilter(tab, occurrence, now_) ==
    IF tab = "today"
    THEN /\ occurrence.start_datetime <= TodayEnd(now_)
         /\ occurrence.end_datetime >= TodayStart(now_)
         /\ occurrence.end_datetime >= now_
    ELSE IF tab = "upcoming" THEN occurrence.start_datetime > TodayEnd(now_)
    ELSE IF tab = "past" THEN occurrence.end_datetime < now_
    ELSE TRUE

\* "Update status dynamically": the row after the recomputation
RefreshStatus_TrustStored(dom, occurrence, now_) == occurrence
RefreshStatus_Advance(dom, occurrence, now_) ==
    [occurrence EXCEPT !.status = IF occurrence.status = "upcoming" THEN "ongoing" ELSE "completed"]
RefreshStatus_AtMidnight(dom, occurrence, now_) ==
    [occurrence EXCEPT !.status = ComputeStatus(dom, occurrence.start_datetime,
                                                occurrence.end_datetime, TodayStart(now_))]
RefreshStatus(dom, occurrence, now_) ==
    LET computed_status ==
            ComputeStatus(dom, occurrence.start_datetime, occurrence.end_datetime, now_)
    IN  IF occurrence.status # computed_status
        THEN [occurrence EXCEPT !.status = computed_status]
        ELSE occurrence

\* The 200 response of a read: the rows returned, and the status each is returned with
ReadReply(op, id, tab, selected, statuses) ==
    [op |-> op, id |-> id, flag |-> FALSE, code |-> 200, detail |-> tab,
     upd |-> NoUpdate, affected |-> selected, returned |-> statuses]

\* GET /{domain}/occurrences?tab=...
ListOccurrences(dom, tab) ==
    LET selected == {i \in DOMAIN occurrences : TabFilter(tab, occurrences[i], now)}
    IN  /\ occurrences' = [i \in DOMAIN occurrences |->
                              IF i \in selected
                              THEN RefreshStatus(dom, occurrences[i], now)
                              ELSE occurrences[i]]
        /\ last' = ReadReply("list", 0, tab, selected,
                              [i \in selected |-> RefreshStatus(dom, occurrences[i], now).status])
        /\ UNCHANGED <<domain, now, series, next_id, single_edited, ops, gen, cls, readers, txn>>

list_event_occurrences ==
    /\ domain = "event"
    /\ \E tab \in Tabs : ListOccurrences("event", tab)

list_prayer_occurrences ==
    /\ domain = "prayer"
    /\ \E tab \in Tabs : ListOccurrences("prayer", tab)

\* GET /{domain}/occurrences/{id}
GetOccurrence(dom, occurrence_id) ==
    IF occurrence_id \notin DOMAIN occurrences
    THEN Reject("get", occurrence_id, FALSE, 404, "not_found")
    ELSE /\ occurrences' = [occurrences EXCEPT
                               ![occurrence_id] = RefreshStatus(dom, occurrences[occurrence_id], now)]
         /\ last' = ReadReply("get", occurrence_id, "", {occurrence_id},
                               [i \in {occurrence_id} |->
                                   RefreshStatus(dom, occurrences[occurrence_id], now).status])
         /\ UNCHANGED <<domain, now, series, next_id, single_edited, ops, gen, cls, readers, txn>>

get_event_occurrence ==
    /\ domain = "event"
    /\ \E occurrence_id \in 1 .. next_id : GetOccurrence("event", occurrence_id)

get_prayer_occurrence ==
    /\ domain = "prayer"
    /\ \E occurrence_id \in 1 .. next_id : GetOccurrence("prayer", occurrence_id)

-----------------------------------------------------------------------------
(* The clock, and the specification of the store                           *)

Tick ==
    /\ \E t \in Instants : t > now /\ now' = t
    /\ last' = [Idle EXCEPT !.op = "tick"]
    /\ UNCHANGED <<domain, series, occurrences, next_id, single_edited, ops, gen, cls, readers, txn>>

Init ==
    /\ domain \in {"event", "prayer"}
    /\ now = Combine(D0, HMS(8, 0, 0))
    /\ series = EmptyTable
    /\ occurrences = EmptyTable
    /\ next_id = 1
    /\ last = Idle
    /\ single_edited = {}
    /\ ops = 0
    /\ gen = NoCall
    /\ cls = NoClassify
    /\ readers = EmptyTable
    /\ txn = NoTxn

Next ==
    \/ create_event
    \/ create_prayer_series
    \/ update_event_occurrence
    \/ update_prayer_occurrence
    \/ delete_event_occurrence
    \/ delete_prayer_occurrence
    \/ Tick

Spec == Init /\ [][Next]_vars

-----------------------------------------------------------------------------
(* The store with its read routes: series are created and edited, the      *)
(* clock advances, and the occurrences are listed and read in between      *)

\* Readings of the clock in this specification: those of Instants, and the
\* end of the 09:00-10:00 window on D0
ReadInstants == Instants \cup { Combine(D0, HMS(10, 0, 0)) }

TickRead ==
    /\ \E t \in ReadInstants : t > now /\ now' = t
    /\ last' = [Idle EXCEPT !.op = "tick"]
    /\ UNCHANGED <<domain, series, occurrences, next_id, single_edited, ops, gen, cls, readers, txn>>

\* Bound of this specification: write requests in one behaviour
MaxReadWrites == 2

NextRead ==
    \/ ops < MaxReadWrites /\ create_event
    \/ ops < MaxReadWrites /\ create_prayer_series
    \/ ops < MaxReadWrites /\ update_event_occurrence
    \/ ops < MaxReadWrites /\ update_prayer_occurrence
    \/ TickRead
    \/ list_event_occurrences
    \/ list_prayer_occurrences
    \/ get_event_occurrence
    \/ get_prayer_occurrence

SpecRead == Init /\ [][NextRead]_vars

-----------------------------------------------------------------------------
(* Concurrent reads: every request runs in its own worker thread with its  *)
(* own session (deps.get_db), so the statements of two read handlers       *)
(* interleave.  A handler is three steps: it reads the clock, it runs its  *)
(* query, and it commits the statuses it assigned.                         *)

\* Bounds of this specification
MaxReaders == 2       \* read requests in one behaviour
MaxRaceWrites == 1    \* series created before the reads start

\* The session of a read request: the rows its query loaded (selected), and
\* the rows whose status it assigned, with the value (dirty)
Reader(pc, op, tab, id, now_, selected, dirty) ==
    [pc |-> pc, op |-> op, tab |-> tab, id |-> id, now |-> now_,
     selected |-> selected, dirty |-> dirty]

RaceStep(op) ==
    /\ last' = [Idle EXCEPT !.op = op]
    /\ UNCHANGED <<domain, now, series, next_id, single_edited, ops, gen, cls, txn>>

\* the rows of a session whose stored status differs from the computed one
DirtyRows(dom, rows, selected, now_) ==
    LET changed == {i \in selected : RefreshStatus(dom, rows[i], now_).status # rows[i].status}
    IN  [i \in changed |-> RefreshStatus(dom, rows[i], now_).status]

\* list: now = datetime.now(timezone.utc)
ListSampleNow ==
    /\ Cardinality(DOMAIN readers) < MaxReaders
    /\ \E tab \in Tabs :
          readers' = [r \in DOMAIN readers \cup {Cardinality(DOMAIN readers) + 1} |->
                         IF r \in DOMAIN readers THEN readers[r]
                         ELSE Reader("sampled", "list", tab, 0, now, {}, EmptyTable)]
    /\ UNCHANGED occurrences
    /\ RaceStep("list_now")

\* list: query.order_by(...).all() and the loop over the rows
ListQuery ==
    \E r \in DOMAIN readers :
       /\ readers[r].pc = "sampled"
       /\ LET selected == {i \in DOMAIN occurrences :
                              TabFilter(readers[r].tab, occurrences[i], readers[r].now)}
          IN  readers' = [readers EXCEPT ![r] =
                             Reader("computed", "list", readers[r].tab, 0, readers[r].now, selected,
                                    DirtyRows(domain, occurrences, selected, readers[r].now))]
       /\ UNCHANGED occurrences
       /\ RaceStep("list_query")

\* get: db.query(...).filter(id == occurrence_id).first(), or the 404
GetQuery ==
    /\ Cardinality(DOMAIN readers) < MaxReaders
    /\ \E occurrence_id \in 1 .. next_id :
          readers' = [r \in DOMAIN readers \cup {Cardinality(DOMAIN readers) + 1} |->
                         IF r \in DOMAIN readers THEN readers[r]
                         ELSE IF occurrence_id \in DOMAIN occurrences
                         THEN Reader("loaded", "get", "", occurrence_id, 0, {occurrence_id},
                                     [i \in {occurrence_id} |-> occurrences[i].status])
                         ELSE Reader("done", "get", "", occurrence_id, 0, {}, EmptyTable)]
    /\ UNCHANGED occurrences
    /\ RaceStep("get_query")

\* get: now = datetime.now(...), and the comparison with the status the query loaded
GetSampleNow ==
    \E r \in DOMAIN readers :
       /\ readers[r].pc = "loaded"
       /\ LET id == readers[r].id
              computed_status == ComputeStatus(domain, occurrences[id].start_datetime,
                                               occurrences[id].end_datetime, now)
          IN  readers' = [readers EXCEPT ![r] =
                             Reader("computed", "get", "", id, now, {id},
                                    IF readers[r].dirty[id] # computed_status
                                    THEN [i \in {id} |-> computed_status] ELSE EmptyTable)]
       /\ UNCHANGED occurrences
       /\ RaceStep("get_now")

\* db.commit(): one UPDATE of status for each row the session assigned
ReadCommit ==
    \E r \in DOMAIN readers :
       /\ readers[r].pc = "computed"
       /\ occurrences' = [i \in DOMAIN occurrences |->
                             IF i \in DOMAIN readers[r].dirty
                             THEN [occurrences[i] EXCEPT !.status = readers[r].dirty[i]]
                             ELSE occurrences[i]]
       /\ readers' = [readers EXCEPT ![r].pc = "done"]
       /\ RaceStep("commit")

NextRace ==
    \/ ops < MaxRaceWrites /\ readers = EmptyTable /\ create_event
    \/ ops < MaxRaceWrites /\ readers = EmptyTable /\ create_prayer_series
    \/ TickRead
    \/ ListSampleNow
    \/ ListQuery
    \/ GetQuery
    \/ GetSampleNow
    \/ ReadCommit

SpecRace == Init /\ [][NextRace]_vars

-----------------------------------------------------------------------------
(* Series creation as a transaction: the statements of a create handler    *)
(* between the validation and the commit, any of which may raise.  The     *)
(* tables hold what is committed; txn holds what the session has added.    *)

\* Bound of this specification: create requests committed in one behaviour
MaxTxns == 2

\* the validation of a create request passes
CreateAccepted(dom, p, now_) ==
    /\ ValidateType(dom, p)[1] = ""
    /\ p.end_datetime > p.start_datetime
    /\ ~(p.end_datetime < now_)
    /\ dom = "prayer" => /\ p.recurrence_type \in {"none", "daily", "weekly", "monthly"}
                         /\ ~(p.start_datetime < now_)

\* db.add(db_series); db.flush(); occurrence_tuples = generate_occurrences(...)
TxnBegin ==
    /\ txn.pc # "open"
    /\ ops < MaxTxns
    /\ Cardinality(DOMAIN series) < MaxSeries
    /\ \E p \in CreatePayloads :
          /\ CreateAccepted(domain, p, now)
          /\ txn' = [pc |-> "open", p |-> p,
                     location |-> ValidateType(domain, p)[2],
                     join_info |-> ValidateType(domain, p)[3],
                     occurrence_tuples |->
                         IF domain = "event"
                         THEN generate_occurrences(p.start_datetime, p.end_datetime,
                                                   p.recurrence_type, DefaultDays(p),
                                                   p.recurrence_end_date, p.recurrence_count,
                                                   MaxMonths)
                         ELSE generate_prayer_occurrences(p.start_datetime, p.end_datetime,
                                                          p.recurrence_type, DefaultDays(p),
                                                          p.recurrence_end_date,
                                                          p.recurrence_count, MaxMonths),
                     added |-> 0, now |-> now]
    /\ last' = [Idle EXCEPT !.op = "begin"]
    /\ UNCHANGED <<domain, now, series, occurrences, next_id, single_edited, ops, gen, cls, readers>>

\* one iteration of "for start_dt, end_dt in occurrence_tuples": db.add(db_occurrence)
TxnAddOccurrence ==
    /\ txn.pc = "open"
    /\ txn.added < Len(txn.occurrence_tuples)
    /\ txn' = [txn EXCEPT !.added = txn.added + 1]
    /\ last' = [Idle EXCEPT !.op = "add"]
    /\ UNCHANGED <<domain, now, series, occurrences, next_id, single_edited, ops, gen, cls, readers>>

\* db.commit(): the series row and the rows of the batch become visible together
TxnCommit ==
    /\ txn.pc = "open"
    /\ txn.added = Len(txn.occurrence_tuples)
    /\ PersistSeries(domain, txn.p, txn.location, txn.join_info, txn.occurrence_tuples, txn.now)
    /\ txn' = [txn EXCEPT !.pc = "committed"]
    /\ UNCHANGED now

\* a statement of the handler raises (the flush, an add, the commit): the
\* request is answered 500 and get_db closes the session, which rolls the
\* open transaction back
TxnFail_KeepsFlushed ==
    /\ txn.pc = "open"
    /\ PersistSeries(domain, txn.p, txn.location, txn.join_info,
                     SubSeq(txn.occurrence_tuples, 1, txn.added), txn.now)
    /\ txn' = [txn EXCEPT !.pc = "failed"]
    /\ UNCHANGED now
TxnFail ==
    /\ txn.pc = "open"
    /\ txn' = [txn EXCEPT !.pc = "failed"]
    /\ last' = Reply("create", 0, FALSE, 500, "error", NoUpdate, {})
    /\ UNCHANGED <<domain, now, series, occurrences, next_id, single_edited, ops, gen, cls, readers>>

NextTxn ==
    \/ TxnBegin
    \/ TxnAddOccurrence
    \/ TxnCommit
    \/ TxnFail
    \/ Tick

SpecTxn == Init /\ [][NextTxn]_vars

-----------------------------------------------------------------------------
(* PreviewSeries, and the store in which a definition is previewed and     *)
(* then created                                                            *)

\* "Format for preview (show next 5)": occurrences[:5]
PreviewLimit == 5
PreviewItems_All(occurrence_tuples) == occurrence_tuples
PreviewItems(occurrence_tuples) ==
    SubSeq(occurrence_tuples, 1,
           IF Len(occurrence_tuples) < PreviewLimit THEN Len(occurrence_tuples) ELSE PreviewLimit)

\* The 200 response of a preview: the request it answers, and the windows of its items
PreviewReply(data, items) ==
    [op |-> "preview", id |-> 0, flag |-> FALSE, code |-> 200, detail |-> "",
     upd |-> NoUpdate, affected |-> {}, request |-> data, windows |-> items]

\* Definitions previewed and created: those of CreatePayloads, seven days in
\* a row, seven occurrences on Fridays and Mondays, a count of -1, and a
\* recurrence_end_date on the day before the anchor
PreviewPayloads ==
    CreatePayloads \cup
    { CreatePayload(Offline("A"), <<Combine(D0, HMS(9, 0, 0)), Combine(D0, HMS(10, 0, 0))>>, DailyTimes(-1)),
      CreatePayload(Offline("A"), <<Combine(D0, HMS(9, 0, 0)), Combine(D0, HMS(10, 0, 0))>>,
                    [WeeklyTimes(3) EXCEPT !.recurrence_end_date = <<D0 - 1>>]),
      CreatePayload(Offline("A"), <<Combine(D0, HMS(9, 0, 0)), Combine(D0, HMS(10, 0, 0))>>, DailyTimes(7)),
      CreatePayload(Online("A"), <<Combine(D0, HMS(9, 0, 0)), Combine(D0, HMS(10, 0, 0))>>, DailyTimes(7)),
      CreatePayload(Offline("A"), <<Combine(D0, HMS(23, 0, 0)), Combine(D0 + 1, HMS(1, 0, 0))>>,
                    [WeeklyTimes(7) EXCEPT !.recurrence_days = <<4, 0>>]) }

\* POST /events/preview
PreviewEvent(event_data) ==
    /\ last' = PreviewReply(event_data,
                            PreviewItems(generate_occurrences(
                                event_data.start_datetime, event_data.end_datetime,
                                event_data.recurrence_type, event_data.recurrence_days,
                                event_data.recurrence_end_date, event_data.recurrence_count,
                                MaxMonths)))
    /\ UNCHANGED <<domain, now, series, occurrences, next_id, single_edited, ops, gen, cls, readers, txn>>

preview_event_occurrences ==
    /\ domain = "event"
    /\ \E event_data \in PreviewPayloads : PreviewEvent(event_data)

\* POST /prayers/preview
PreviewPrayer(prayer_data) ==
    IF prayer_data.recurrence_type \notin {"none", "daily", "weekly", "monthly"}
    THEN Reject("preview", 0, FALSE, 400, "recurrence_type")
    ELSE /\ last' = PreviewReply(prayer_data,
                                 PreviewItems(generate_prayer_occurrences(
                                     prayer_data.start_datetime, prayer_data.end_datetime,
                                     prayer_data.recurrence_type, prayer_data.recurrence_days,
                                     prayer_data.recurrence_end_date, prayer_data.recurrence_count,
                                     MaxMonths)))
         /\ UNCHANGED <<domain, now, series, occurrences, next_id, single_edited, ops, gen, cls, readers, txn>>

preview_prayer_occurrences ==
    /\ domain = "prayer"
    /\ \E prayer_data \in PreviewPayloads : PreviewPrayer(prayer_data)

\* Bound of this specification: create requests that succeed in one behaviour
MaxPreviewWrites == 2

NextPreview ==
    \/ /\ domain = "event" /\ ops < MaxPreviewWrites
       /\ Cardinality(DOMAIN series) < MaxSeries
       /\ \E event \in PreviewPayloads : \E now2 \in {t \in Instants : t >= now} :
             CreateEvent(event, now2)
    \/ /\ domain = "prayer" /\ ops < MaxPreviewWrites
       /\ Cardinality(DOMAIN series) < MaxSeries
       /\ \E prayer \in PreviewPayloads : CreatePrayerSeries(prayer)
    \/ preview_event_occurrences
    \/ preview_prayer_occurrences
    \/ Tick

SpecPreview == Init /\ [][NextPreview]_vars

-----------------------------------------------------------------------------
(* The generator alone: one call of generate_occurrences on bounded inputs *)

\* Anchor dates: a Friday and a Monday in January, a February of a common
\* year, the ends of January of a leap and of a common year, a December
GenDates ==
    { Ymd(2025, 1, 3), Ymd(2025, 1, 6), Ymd(2025, 2, 1), Ymd(2024, 1, 31), Ymd(2025, 1, 31),
      Ymd(2024, 12, 15) }
GenTimes == { HMS(9, 0, 0), HMS(23, 0, 30) }
\* one hour, and twenty-six hours
GenDurations == { 3600, 93600 }
GenTypes == { "none", "daily", "weekly", "monthly" }
\* recurrence_days: None, "1,5", "0,4", "4,0", "1,1", "7", "x,2"
GenDays == { << >>, <<1, 5>>, <<0, 4>>, <<4, 0>>, <<1, 1>>, <<7>>, <<NonDigit, 2>> }
\* recurrence_end_date, as an offset in days from the anchor date
GenEndOffsets == { 10, 45, -1, 100 }
GenCounts == { << >>, <<0>>, <<1>>, <<3>>, <<-1>> }

GenCall(d, t, dur, ty, days, e, c) ==
    [pc |-> "call", start_datetime |-> Combine(d, t), end_datetime |-> Combine(d, t) + dur,
     recurrence_type |-> ty, recurrence_days |-> days,
     recurrence_end_date |-> IF e = << >> THEN << >> ELSE <<d + e[1]>>,
     recurrence_count |-> c, result |-> << >>]

GenCalls ==
    { GenCall(d, t, dur, ty, days, e, c) :
        d \in GenDates, t \in GenTimes, dur \in GenDurations, ty \in GenTypes,
        days \in GenDays,
        e \in {<< >>} \cup {<<k>> : k \in GenEndOffsets},
        c \in GenCounts }

InitGen ==
    /\ domain = "event"
    /\ now = Combine(D0, HMS(8, 0, 0))
    /\ series = EmptyTable
    /\ occurrences = EmptyTable
    /\ next_id = 1
    /\ last = Idle
    /\ single_edited = {}
    /\ ops = 0
    /\ cls = NoClassify
    /\ readers = EmptyTable
    /\ txn = NoTxn
    /\ gen \in {g \in GenCalls : g.recurrence_type = "weekly" \/ g.recurrence_days = << >>}

Generate ==
    /\ gen.pc = "call"
    /\ gen' = [gen EXCEPT
                  !.pc = "done",
                  !.result = generate_occurrences(gen.start_datetime, gen.end_datetime,
                                                  gen.recurrence_type, gen.recurrence_days,
                                                  gen.recurrence_end_date, gen.recurrence_count,
                                                  MaxMonths)]
    /\ UNCHANGED <<domain, now, series, occurrences, next_id, last, single_edited, ops, cls, readers, txn>>

NextGen == Generate

SpecGen == InitGen /\ [][NextGen]_vars

-----------------------------------------------------------------------------
(* The classifier alone: one call of compute_event_status on bounded inputs *)

\* Starts on the minute, within a minute, and in the last minute of a day
ClsStarts ==
    { Combine(D0, HMS(9, 0, 0)), Combine(D0, HMS(9, 0, 10)), Combine(D0, HMS(9, 0, 30)),
      Combine(D0, HMS(9, 0, 50)), Combine(D0, HMS(23, 59, 30)) }
\* end - start, in seconds: twenty seconds, a minute, an hour, twenty-six hours
ClsDurations == { 20, 60, 3600, 93600 }
\* now, in seconds from the start (<<"start", k>>) or from the end (<<"end", k>>)
ClsNows ==
    { <<"start", 0 - 60>>, <<"start", 0 - 10>>, <<"start", 0>>, <<"start", 10>>,
      <<"end", 0 - 60>>, <<"end", 0 - 10>>, <<"end", 0>>, <<"end", 10>> }

ClsCall(s, dur, n) ==
    [pc |-> "call", start_datetime |-> s, end_datetime |-> s + dur,
     now |-> (IF n[1] = "start" THEN s ELSE s + dur) + n[2], result |-> ""]

ClsCalls == { ClsCall(s, dur, n) : s \in ClsStarts, dur \in ClsDurations, n \in ClsNows }

InitCls ==
    /\ domain = "event"
    /\ now = Combine(D0, HMS(8, 0, 0))
    /\ series = EmptyTable
    /\ occurrences = EmptyTable
    /\ next_id = 1
    /\ last = Idle
    /\ single_edited = {}
    /\ ops = 0
    /\ gen = NoCall
    /\ readers = EmptyTable
    /\ txn = NoTxn
    /\ cls \in ClsCalls

Classify ==
    /\ cls.pc = "call"
    /\ cls' = [cls EXCEPT
                  !.pc = "done",
                  !.result = compute_event_status(cls.start_datetime, cls.end_datetime, cls.now)]
    /\ UNCHANGED <<domain, now, series, occurrences, next_id, last, single_edited, ops, gen, readers, txn>>

NextCls == Classify

SpecCls == InitCls /\ [][NextCls]_vars

-----------------------------------------------------------------------------
(* Properties of the store (specification Spec)                            *)

Rows == DOMAIN occurrences

\* the step handled an edit that succeeded / a delete that succeeded
EditDone == last'.op = "edit" /\ last'.code = 200
DeleteDone == last'.op = "delete" /\ last'.code = 204

\* Same series as the target, a start strictly after the target's start,
\* and not started at the instant of the request
LaterSibling(i, target) ==
    /\ i # target
    /\ occurrences[i].series_id = occurrences[target].series_id
    /\ occurrences[i].start_datetime > occurrences[target].start_datetime
    /\ occurrences[i].start_datetime > now

\* title, metadata and window of a row
Content(row) ==
    <<row.title, row.type, row.location, row.join_info, row.start_datetime, row.end_datetime>>

\* C1: every persisted occurrence, the edited target and every sibling an
\* apply-to-future edit rewrites alike, has end_datetime > start_datetime.
C1_EndAfterStart ==
    \A i \in Rows : occurrences[i].end_datetime > occurrences[i].start_datetime

\* C2: an edit with apply_to_future moves every later sibling that has not
\* started to the new start time of day on the sibling's own date, and siblings
\* on distinct dates stay on distinct dates.
C2_FutureSiblingsKeepOwnDate ==
    [][ (EditDone /\ last'.flag) =>
          /\ \A i \in Rows : LaterSibling(i, last'.id) =>
                occurrences'[i].start_datetime =
                    Combine(DateOf(occurrences[i].start_datetime),
                            TimeOf(last'.upd.start_datetime))
          /\ \A i, j \in Rows :
                (/\ LaterSibling(i, last'.id) /\ LaterSibling(j, last'.id)
                 /\ DateOf(occurrences[i].start_datetime) # DateOf(occurrences[j].start_datetime))
                => DateOf(occurrences'[i].start_datetime) # DateOf(occurrences'[j].start_datetime)
      ]_vars

\* Two siblings on different dates were rewritten to the new time of day, on
\* dates other than the date of the update payload.
C2_Witness ==
    /\ last.op = "edit" /\ last.code = 200 /\ last.flag
    /\ \E i, j \in (last.affected \ {last.id}) :
          /\ DateOf(occurrences[i].start_datetime) # DateOf(occurrences[j].start_datetime)
          /\ DateOf(occurrences[i].start_datetime) # DateOf(last.upd.start_datetime)
          /\ DateOf(occurrences[j].start_datetime) # DateOf(last.upd.start_datetime)
          /\ TimeOf(occurrences[i].start_datetime) = TimeOf(last.upd.start_datetime)
          /\ TimeOf(occurrences[j].start_datetime) = TimeOf(last.upd.start_datetime)

\* C3: an edit or delete of an occurrence whose start is at or before now is
\* answered 400 and changes no occurrence row and no series row, whatever
\* apply_to_future / delete_future is.
C3_StartedIsImmutable ==
    [][ \A id \in Rows :
          (/\ last'.op \in {"edit", "delete"}
           /\ last'.id = id
           /\ occurrences[id].start_datetime <= now)
          => (/\ last'.code = 400
              /\ last'.detail = "started"
              /\ occurrences' = occurrences
              /\ series' = series)
      ]_vars

\* An edit or delete with the future flag set was refused because its target
\* had started; here the target started exactly at the instant of the request.
C3_Witness ==
    /\ last.op \in {"edit", "delete"} /\ last.flag
    /\ last.code = 400 /\ last.detail = "started"
    /\ last.id \in Rows
    /\ occurrences[last.id].start_datetime = now

\* C4: an edit or delete succeeds only if the status classifier, at minute
\* precision, calls the occurrence upcoming at the instant of the request.
C4_StartedCheckAtMinutePrecision ==
    [][ (EditDone \/ DeleteDone) =>
          ComputeStatus(domain, occurrences[last'.id].start_datetime,
                        occurrences[last'.id].end_datetime, now) = "upcoming"
      ]_vars

\* C5: a delete removes the target and, with delete_future, the later
\* siblings that have not started, and nothing else; every other row and
\* every series row is unchanged; after delete_future no row of the series
\* with a start after the target's start remains.
C5_DeleteRemovesExactly ==
    [][ DeleteDone =>
          LET target == last'.id
              expected == {target} \cup
                          (IF last'.flag THEN {i \in Rows : LaterSibling(i, target)} ELSE {})
          IN  /\ DOMAIN occurrences' = Rows \ expected
              /\ \A i \in Rows \ expected : occurrences'[i] = occurrences[i]
              /\ series' = series
              /\ last'.flag =>
                    ~ \E i \in DOMAIN occurrences' :
                          /\ occurrences'[i].series_id = occurrences[target].series_id
                          /\ occurrences'[i].start_datetime > occurrences[target].start_datetime
      ]_vars

\* A delete with delete_future removed the target and a later sibling, and
\* left a row that had started and rows of two series.
C5_Witness ==
    /\ last.op = "delete" /\ last.code = 204 /\ last.flag
    /\ Cardinality(last.affected) >= 2
    /\ \E i \in Rows : occurrences[i].start_datetime <= now
    /\ \E i, j \in Rows : occurrences[i].series_id # occurrences[j].series_id

\* C6, as claimed: an apply-to-future edit leaves the title, metadata and
\* window of a later sibling that a single-occurrence edit had changed.
C6_EditedInstanceUndisturbed ==
    [][ (EditDone /\ last'.flag) =>
          \A i \in Rows \cap single_edited :
             (/\ i # last'.id
              /\ occurrences[i].series_id = occurrences[last'.id].series_id
              /\ occurrences[i].start_datetime > occurrences[last'.id].start_datetime)
             => Content(occurrences'[i]) = Content(occurrences[i])
      ]_vars

\* C6, amended: a sibling that a single-occurrence edit had changed is treated
\* like every other sibling.  If it is later than the target's original start
\* and has not started, the apply-to-future edit overwrites it: it takes the
\* edit's title and metadata and the edit's start time of day on its own date.
\* Otherwise it keeps the earlier edit.
C6_EditedInstanceOverwritten ==
    [][ (EditDone /\ last'.flag) =>
          \A i \in Rows \cap single_edited :
             (i # last'.id /\ occurrences[i].series_id = occurrences[last'.id].series_id)
             => IF LaterSibling(i, last'.id)
                THEN /\ occurrences'[i].title = last'.upd.title
                     /\ occurrences'[i].type = last'.upd.type
                     /\ occurrences'[i].location = ValidateType(domain, last'.upd)[2]
                     /\ occurrences'[i].join_info = ValidateType(domain, last'.upd)[3]
                     /\ occurrences'[i].start_datetime =
                            Combine(DateOf(occurrences[i].start_datetime),
                                    TimeOf(last'.upd.start_datetime))
                ELSE Content(occurrences'[i]) = Content(occurrences[i])
      ]_vars

\* An apply-to-future edit rewrote a sibling that a single-occurrence edit
\* had changed before.
C6_Witness ==
    /\ last.op = "edit" /\ last.code = 200 /\ last.flag
    /\ \E i \in (last.affected \cap single_edited) \ {last.id} :
          /\ occurrences[i].title = last.upd.title
          /\ TimeOf(occurrences[i].start_datetime) = TimeOf(last.upd.start_datetime)
          /\ DateOf(occurrences[i].start_datetime) # DateOf(last.upd.start_datetime)

\* C18: after a successful edit of a single occurrence (apply_to_future
\* false), in either domain, the new start of the target is strictly after
\* now and the status stored for it is upcoming; an edit whose new start is at
\* or before now is therefore never accepted.
C18_SingleEditStartsInFuture ==
    [][ (EditDone /\ ~last'.flag) =>
            /\ last'.upd.start_datetime > now
            /\ occurrences'[last'.id].start_datetime > now
            /\ occurrences'[last'.id].status = "upcoming"
      ]_vars

\* the step handled the create request with payload p
CreateStep(p) ==
    IF domain = "event" THEN \E now2 \in Instants : CreateEvent(p, now2)
    ELSE CreatePrayerSeries(p)

\* C19: a create request whose window is inverted or empty (end <= start),
\* or lies entirely in the past (end before now), is answered 400 and leaves
\* the series and the occurrences as they were.
C19_InvalidWindowPersistsNothing ==
    [][ \A p \in CreatePayloads :
          (/\ \/ p.end_datetime <= p.start_datetime
              \/ p.end_datetime < now
           /\ CreateStep(p))
          => (/\ last'.op = "create"
              /\ last'.code = 400
              /\ series' = series
              /\ occurrences' = occurrences
              /\ next_id' = next_id)
      ]_vars

\* A create request was refused for its window while a series was stored.
C19_Witness ==
    /\ last.op = "create" /\ last.code = 400
    /\ last.detail \in {"range", "past"}
    /\ DOMAIN series # {}
    /\ Rows # {}

\* the rows owned by series sid in table rows
OwnedBy(rows, sid) == {i \in DOMAIN rows : rows[i].series_id = sid}

C25_MultiDaySiblingEnd ==
    [][ (EditDone /\ last'.flag) =>
          \A i \in last'.affected \ {last'.id} :
             DateOf(occurrences[i].start_datetime) # DateOf(occurrences[i].end_datetime) =>
                LET new_start == occurrences'[i].start_datetime
                    own_end == Combine(DateOf(occurrences[i].end_datetime),
                                       TimeOf(last'.upd.end_datetime))
                IN  occurrences'[i].end_datetime =
                        IF own_end > new_start THEN own_end
                        ELSE new_start + (last'.upd.end_datetime - last'.upd.start_datetime)
      ]_vars

\* An apply-to-future edit to 09:30-10:30 rewrote a sibling that ran from
\* 23:00 to 01:00 of the next day: the sibling now ends on its own end
\* date, twenty-five hours after its new start.
C25_Witness ==
    /\ last.op = "edit" /\ last.code = 200 /\ last.flag
    /\ last.upd.end_datetime - last.upd.start_datetime = 3600
    /\ \E i \in (last.affected \ {last.id}) \cap Rows :
          /\ DateOf(occurrences[i].end_datetime) = DateOf(occurrences[i].start_datetime) + 1
          /\ occurrences[i].end_datetime - occurrences[i].start_datetime = 25 * 3600

\* C26: a successful edit leaves the series rows as they were, adds and
\* removes no occurrence, and changes, besides its target, only rows of the
\* target's series whose start was strictly after the target's original start
\* and strictly after now, and those only when apply_to_future is set.
C26_EditFrame ==
    [][ EditDone =>
          /\ series' = series
          /\ DOMAIN occurrences' = DOMAIN occurrences
          /\ \A i \in Rows \ {last'.id} :
                occurrences'[i] # occurrences[i] =>
                   /\ last'.flag
                   /\ occurrences[i].series_id = occurrences[last'.id].series_id
                   /\ occurrences[i].start_datetime > occurrences[last'.id].start_datetime
                   /\ occurrences[i].start_datetime > now
      ]_vars

\* An apply-to-future edit of the second occurrence of a series rewrote the
\* third and left the first, and the row of another series, as they were.
C26_Witness ==
    /\ last.op = "edit" /\ last.code = 200 /\ last.flag
    /\ last.id \in Rows
    /\ \E i, j, k \in Rows \ {last.id} :
          /\ i \in last.affected
          /\ occurrences[i].title = last.upd.title
          /\ occurrences[j].series_id = occurrences[last.id].series_id
          /\ occurrences[j].start_datetime < occurrences[last.id].start_datetime
          /\ occurrences[j].start_datetime > now
          /\ occurrences[j].title # last.upd.title
          /\ occurrences[k].series_id # occurrences[last.id].series_id
          /\ occurrences[k].title # last.upd.title

\* The tabs, other than None, that return occurrence i at the instant now_
TabsOf(i, now_) == {tab \in Tabs \ {NoneStr} : TabFilter(tab, occurrences[i], now_)}

\* C29: at the instant now the filters of tab=today, tab=upcoming and tab=past
\* partition the stored occurrences, each occurrence being returned by exactly
\* one of them, and tab=None returns every occurrence, in every state of the
\* store reached through create, edit and delete requests.
C29_TabsPartitionTheStore ==
    \A i \in Rows :
        /\ Cardinality(TabsOf(i, now)) = 1
        /\ TabFilter(NoneStr, occurrences[i], now)

\* An occurrence stored with its end before its start that only tab returns
InvertedIn(tab) ==
    \E i \in Rows : /\ occurrences[i].end_datetime < occurrences[i].start_datetime
                    /\ TabsOf(i, now) = {tab}

\* C29 witness: the store holds an occurrence of each tab, and after an edit of
\* a whole series across midnight it holds occurrences stored with the end
\* before the start, one in the upcoming tab and one in the past tab
C29_Witness ==
    /\ \A tab \in Tabs \ {NoneStr} : \E i \in Rows : TabsOf(i, now) = {tab}
    /\ InvertedIn("upcoming")
    /\ InvertedIn("past")

-----------------------------------------------------------------------------
(* Properties of the read routes (specification SpecRead)                  *)

\* the last request was a read that returned rows
ReadDone == last.op \in {"list", "get"} /\ last.code = 200

\* position of a status in the lifecycle
Rank(status) == IF status = "upcoming" THEN 0 ELSE IF status = "completed" THEN 2 ELSE 1

C15_TodayHasNotEnded ==
    (ReadDone /\ last.op = "list" /\ last.detail = "today") =>
        \A i \in last.affected : last.returned[i] # "completed"

\* C16: while the window of an occurrence stays as it is, its stored status
\* never moves backward along upcoming -> ongoing -> completed, whatever
\* request is handled.
C16_StatusMovesForward ==
    [][ \A i \in Rows \cap DOMAIN occurrences' :
          (/\ occurrences'[i].start_datetime = occurrences[i].start_datetime
           /\ occurrences'[i].end_datetime = occurrences[i].end_datetime)
          => Rank(occurrences'[i].status) >= Rank(occurrences[i].status)
      ]_vars

\* A single-occurrence read returned completed for an occurrence of a weekly
\* series while a sibling of it is still stored as upcoming.
C16_Witness ==
    /\ ReadDone /\ last.op = "get"
    /\ last.returned[last.id] = "completed"
    /\ \E j \in Rows :
          /\ occurrences[j].series_id = occurrences[last.id].series_id
          /\ occurrences[j].status = "upcoming"
          /\ occurrences[j].start_datetime < now

\* C23: a list that directly follows a list with the same tab, at the same
\* now and with no write in between, returns the same rows with the same
\* status for each, and changes no stored status.
C23_ListIsIdempotent ==
    [][ (/\ last.op = "list" /\ last.code = 200
         /\ last'.op = "list" /\ last'.code = 200
         /\ last'.detail = last.detail
         /\ now' = now)
        => (/\ last'.affected = last.affected
            /\ last'.returned = last.returned
            /\ occurrences' = occurrences)
      ]_vars

\* A list of the past tab returned a row that it had found stored as
\* upcoming or ongoing and stored it as completed.
C23_Witness ==
    /\ ReadDone /\ last.op = "list" /\ last.detail = "past"
    /\ \E i \in last.affected :
          /\ last.returned[i] = "completed"
          /\ occurrences[i].status = "completed"
          /\ occurrences[i].end_datetime < now

-----------------------------------------------------------------------------
(* Properties of the generator (specification SpecGen)                     *)

GenDone == gen.pc = "done"
Windows == 1 .. Len(gen.result)
AnchorDate == DateOf(gen.start_datetime)
StartDates == {DateOf(gen.result[k][1]) : k \in Windows}

\* date + n calendar months: same day of month, clamped to the month's last day
AddMonths(d, n) ==
    LET months == (YearOf(d) * 12 + (MonthOf(d) - 1)) + n
        y == months \div 12
        m == (months % 12) + 1
    IN  Ymd(y, m, IF DayOf(d) <= DaysInMonth(y, m) THEN DayOf(d) ELSE DaysInMonth(y, m))

Min(a, b) == IF a <= b THEN a ELSE b

\* C7: every window returned lasts exactly as long as the anchor window.
C7_DurationPreserved ==
    GenDone =>
        \A k \in Windows :
            gen.result[k][2] - gen.result[k][1] = gen.end_datetime - gen.start_datetime

\* A weekly rule on an anchor window that ends on a later date than it starts
\* returned at least three windows.
C7_Witness ==
    /\ GenDone
    /\ gen.recurrence_type = "weekly"
    /\ DateOf(gen.end_datetime) # DateOf(gen.start_datetime)
    /\ Len(gen.result) >= 3

\* C8: weekly, no count: the start dates are exactly the dates from the
\* anchor date to the end bound whose weekday is in the day list (the anchor's
\* weekday when the list is empty), each once.  Stated for day lists of
\* distinct weekdays 0..6, in any order.
C8_WeeklyExactDates ==
    LET parsed == parse_recurrence_days(gen.recurrence_days)
        days == IF parsed = << >> THEN {Weekday(AnchorDate)}
                ELSE {parsed[k] : k \in 1 .. Len(parsed)}
        bound == ActualEndDate(gen.start_datetime, gen.recurrence_end_date, MaxMonths)
        expected == {d \in AnchorDate .. bound : Weekday(d) \in days}
    IN  (/\ GenDone
         /\ gen.recurrence_type = "weekly"
         /\ gen.recurrence_count = << >>
         /\ days \subseteq 0 .. 6
         /\ Cardinality(days) = Len(parsed) \/ parsed = << >>)
        => (StartDates = expected /\ Len(gen.result) = Cardinality(expected))

\* C9: no window starts on a date after
\* min(anchor date + MaxMonths calendar months, recurrence_end_date).
C9_WithinCalendarMonths ==
    LET horizon == AddMonths(AnchorDate, MaxMonths)
        bound == IF gen.recurrence_end_date = << >> THEN horizon
                 ELSE Min(horizon, gen.recurrence_end_date[1])
    IN  (GenDone /\ gen.recurrence_type # "none") => \A d \in StartDates : d <= bound

\* C10: with recurrence_count = N >= 0, at most N windows are returned.
C10_AtMostCount ==
    (GenDone /\ gen.recurrence_count # << >> /\ gen.recurrence_count[1] >= 0)
    => Len(gen.result) <= gen.recurrence_count[1]

\* C11: daily: the i-th window (i = 0, 1, 2, ...) starts exactly i days after
\* the anchor start, at the anchor's time of day; no day is skipped.
C11_DailyStartsAreConsecutive ==
    (GenDone /\ gen.recurrence_type = "daily") =>
        \A k \in Windows : gen.result[k][1] = gen.start_datetime + (k - 1) * SecondsPerDay

\* A daily rule on an anchor that starts at 23:00:30 returned at least three windows.
C11_Witness ==
    /\ GenDone
    /\ gen.recurrence_type = "daily"
    /\ TimeOf(gen.start_datetime) = HMS(23, 0, 30)
    /\ Len(gen.result) >= 3

\* C12: monthly: every start date after the first is the previous start date
\* advanced by one calendar month, on the same day of the month or, where the
\* month has no such day, on its last day; December is followed by January of
\* the next year; an anchor on January 31 is followed by February 28, or by
\* February 29 in a leap year.
C12_MonthlyStepsOneMonth ==
    (GenDone /\ gen.recurrence_type = "monthly") =>
        /\ \A k \in Windows :
              k > 1 => DateOf(gen.result[k][1]) = AddMonths(DateOf(gen.result[k - 1][1]), 1)
        /\ (Len(gen.result) >= 2 /\ MonthOf(AnchorDate) = 1 /\ DayOf(AnchorDate) = 31) =>
              DateOf(gen.result[2][1]) =
                  Ymd(YearOf(AnchorDate), 2, IF IsLeap(YearOf(AnchorDate)) THEN 29 ELSE 28)

\* A monthly rule anchored on January 31 returned at least three windows.
C12_Witness ==
    /\ GenDone
    /\ gen.recurrence_type = "monthly"
    /\ MonthOf(AnchorDate) = 1 /\ DayOf(AnchorDate) = 31
    /\ Len(gen.result) >= 3

\* C27: the windows come back in strictly increasing order of start, no
\* two of them with the same start, whatever the recurrence type and the
\* recurrence_days list (unsorted, with repeated days, with days above 6).
C27_StartsStrictlyIncrease ==
    GenDone =>
        \A k \in 1 .. (Len(gen.result) - 1) : gen.result[k][1] < gen.result[k + 1][1]

\* C28: monthly: every window starts on day min(anchor day of month, days
\* in the window's month) of its month, so that after a clamp to a short
\* month the windows return to the anchor's day of month.
C28_MonthlyReturnsToAnchorDay ==
    (GenDone /\ gen.recurrence_type = "monthly") =>
        \A k \in Windows :
            LET d == DateOf(gen.result[k][1])
            IN  DayOf(d) = Min(DayOf(AnchorDate), DaysInMonth(YearOf(d), MonthOf(d)))

-----------------------------------------------------------------------------
(* Properties of the classifier (specification SpecCls)                    *)

ClsDone == cls.pc = "done"
\* the minute an instant falls in
Minute(t) == t \div 60

\* the three-way partition at minute precision
ClsPartition ==
    /\ cls.result \in {"upcoming", "ongoing", "completed"}
    /\ cls.result = "upcoming" <=> Minute(cls.now) < Minute(cls.start_datetime)
    /\ cls.result = "ongoing" <=> /\ Minute(cls.start_datetime) <= Minute(cls.now)
                                  /\ Minute(cls.now) < Minute(cls.end_datetime)
    /\ cls.result = "completed" <=> Minute(cls.now) >= Minute(cls.end_datetime)

-----------------------------------------------------------------------------
(* Properties of concurrent reads (specification SpecRace)                 *)

\* every read request that began has committed, and there were at least two
AllCommitted ==
    /\ Cardinality(DOMAIN readers) >= 2
    /\ \A r \in DOMAIN readers : readers[r].pc = "done"

\* the read requests whose query loaded row i
ReadersOf(i) == {r \in DOMAIN readers : i \in readers[r].selected}

\* the latest reading of the clock taken by a request that loaded row i
LatestSampled(i) ==
    CHOOSE t \in {readers[r].now : r \in ReadersOf(i)} :
        \A r \in ReadersOf(i) : readers[r].now <= t

\* C17: once two or more racing reads of a row have all committed (and
\* nothing edited the row), the stored status of the row is the
\* classification of its window at the latest instant any of them sampled.
C17_RacingReadsAreHarmless ==
    AllCommitted =>
        \A i \in Rows :
            Cardinality(ReadersOf(i)) >= 2 =>
                occurrences[i].status =
                    ComputeStatus(domain, occurrences[i].start_datetime,
                                  occurrences[i].end_datetime, LatestSampled(i))

-----------------------------------------------------------------------------
(* Properties of series creation as a transaction (specification SpecTxn)  *)

\* C21: series creation is atomic.  A step that makes a series row visible
\* makes visible, in the same step, one row for every window generated for
\* it and no other row; no step adds an occurrence row without its series;
\* and a create request that fails after the session has added the series
\* and some of its occurrences leaves neither the series row nor any
\* occurrence row behind.
C21_CreateIsAtomic ==
    [][ /\ (DOMAIN series' # DOMAIN series) =>
              /\ txn.pc = "open"
              /\ \E sid \in DOMAIN series' \ DOMAIN series :
                    /\ DOMAIN series' = DOMAIN series \cup {sid}
                    /\ DOMAIN occurrences' \ DOMAIN occurrences = OwnedBy(occurrences', sid)
                    /\ Cardinality(OwnedBy(occurrences', sid)) = Len(txn.occurrence_tuples)
                    /\ \A k \in 1 .. Len(txn.occurrence_tuples) :
                          \E i \in OwnedBy(occurrences', sid) :
                             <<occurrences'[i].start_datetime, occurrences'[i].end_datetime>>
                                = txn.occurrence_tuples[k]
        /\ (DOMAIN occurrences' # DOMAIN occurrences) => (DOMAIN series' # DOMAIN series)
        /\ (txn.pc = "open" /\ txn'.pc = "failed") =>
              (series' = series /\ occurrences' = occurrences)
        /\ \A i \in DOMAIN occurrences' : occurrences'[i].series_id \in DOMAIN series'
      ]_vars

\* A create request failed after its session had added the series and two
\* occurrences of a batch of three, beside a series committed before: the
\* store holds the rows of the earlier series only.
C21_Witness ==
    /\ txn.pc = "failed"
    /\ txn.added = 2 /\ Len(txn.occurrence_tuples) = 3
    /\ last.code = 500
    /\ Cardinality(DOMAIN series) = 1
    /\ \A i \in Rows : occurrences[i].series_id = 1

-----------------------------------------------------------------------------
(* Properties of PreviewSeries (specification SpecPreview)                 *)

\* the step handled the create request with payload p, of PreviewPayloads
CreateOf(p) ==
    IF domain = "event" THEN \E now2 \in Instants : CreateEvent(p, now2)
    ELSE CreatePrayerSeries(p)

\* C22: a preview returns at most 5 windows and leaves the series and the
\* occurrences as they were; and when the definition previewed is created
\* next, the windows the preview returned are the first 5 (or all, if
\* fewer) of the rows the create persists, in the order of the rows.
C22_PreviewIsPrefixOfCreate ==
    [][ /\ (last'.op = "preview" /\ last'.code = 200) =>
              /\ Len(last'.windows) <= 5
              /\ series' = series
              /\ occurrences' = occurrences
              /\ next_id' = next_id
        /\ \A p \in PreviewPayloads :
              (/\ last.op = "preview" /\ last.code = 200 /\ last.request = p
               /\ CreateOf(p) /\ last'.code = 201)
              => LET n == Cardinality(last'.affected)
                 IN  /\ last'.affected = next_id .. (next_id + n - 1)
                     /\ Len(last.windows) = (IF n < 5 THEN n ELSE 5)
                     /\ \A k \in 1 .. Len(last.windows) :
                           last.windows[k] =
                               <<occurrences'[next_id + k - 1].start_datetime,
                                 occurrences'[next_id + k - 1].end_datetime>>
      ]_vars

\* A weekly definition of seven occurrences on Fridays and Mondays was
\* previewed over a store that holds rows, and five windows came back.
C22_Witness ==
    /\ last.op = "preview" /\ last.code = 200
    /\ last.request.recurrence_days = <<4, 0>>
    /\ last.request.recurrence_count = <<7>>
    /\ Len(last.windows) = 5
    /\ Rows # {}

\* C30: a series that a create request has just stored owns at least one
\* occurrence, whatever the accepted definition (recurrence type,
\* recurrence_days, recurrence_end_date, recurrence_count).
C30_CreatedSeriesHasOccurrence ==
    (last.op = "create" /\ last.code = 201) =>
        /\ last.id \in DOMAIN series
        /\ OwnedBy(occurrences, last.id) # {}

====
